---- MODULE Spec2Model ----
(***************************************************************************)
(* Model of electrolux/cli.py: the Electrolux controller (frame codec in   *)
(* Electrolux._send, the command facade methods) and the part of main()    *)
(* that constructs the controller and dispatches one command.              *)
(*                                                                         *)
(* Bytes are integers 0..255 and byte strings are sequences of them.       *)
(* Python offsets are 0-based; sequence indices here are 1-based, so the   *)
(* byte at Python offset k is s[k + 1].                                    *)
(* struct.unpack("h", ...) uses the native byte order; it is modelled as   *)
(* little-endian, the byte order of the platforms the tool is run on.      *)
(***************************************************************************)
EXTENDS Integers, Sequences, FiniteSets, TLC

-----------------------------------------------------------------------------
(* Bounds of the model *)

\* temp() is called with every integer in (min_temp - TempSlack)..(max_temp + TempSlack)
TempSlack == 3
\* timer() is called with hours in -TimerSlack..(23 + TimerSlack) and
\* minutes in -TimerSlack..(59 + TimerSlack)
TimerSlack == 1
\* number of filler characters in the long response body
LongLen == 140

-----------------------------------------------------------------------------
(* Python primitives used by the code *)

Min(a, b) == IF a < b THEN a ELSE b
Max(a, b) == IF a > b THEN a ELSE b

\* s[lo:hi] of Python: negative indices count from the end, both are clamped
Slice(s, lo, hi) ==
    LET n == Len(s)
        l == IF lo < 0 THEN Max(n + lo, 0) ELSE Min(lo, n)
        h == IF hi < 0 THEN Max(n + hi, 0) ELSE Min(hi, n)
    IN  SubSeq(s, l + 1, h)

\* s[lo:] of Python
SliceFrom(s, lo) == Slice(s, lo, Len(s))

\* s[lo:hi] = v of Python on a bytearray: the slice is replaced by v, whatever
\* the length of v
SliceAssign(s, lo, hi, v) == Slice(s, 0, lo) \o v \o SliceFrom(s, Max(lo, hi))

\* s[k] = b of Python
ItemAssign(s, k, b) == [s EXCEPT ![k + 1] = b]

\* bytearray(n): n zero bytes
bytearray(n) == [i \in 1..n |-> 0]

\* n.to_bytes(2, "little"), for 0 <= n < 65536
to_bytes2(n) == <<n % 256, (n \div 256) % 256>>

\* sum(s, start); s[lo..hi] is summed by halves
RECURSIVE SumRange(_, _, _)
SumRange(s, lo, hi) ==
    IF lo > hi THEN 0
    ELSE IF lo = hi THEN s[lo]
    ELSE LET mid == (lo + hi) \div 2
         IN  SumRange(s, lo, mid) + SumRange(s, mid + 1, hi)
SumSeq(s, start) == start + SumRange(s, 1, Len(s))

\* struct.unpack("h", b)[0]: two bytes as a signed 16-bit integer
unpack_h(b) ==
    LET u == b[1] + 256 * b[2]
    IN  IF u >= 32768 THEN u - 65536 ELSE u

\* the decimal digits of n >= 0
RECURSIVE Digits(_)
Digits(n) == IF n < 10 THEN <<48 + n>> ELSE Digits(n \div 10) \o <<48 + (n % 10)>>

\* '%s' % n for an integer n
FmtS(n) == IF n < 0 THEN <<45>> \o Digits(-n) ELSE Digits(n)

\* '%02d' % n: zero-padded to a width of two, the sign counts in the width
Fmt02d(n) == IF 0 <= n /\ n < 10 THEN <<48>> \o Digits(n) ELSE FmtS(n)

\* '%s' % d.get(k): the value's digits, or the text None for a missing key
NoneText == <<78, 111, 110, 101>>
FmtGet(d, k) == IF k \in DOMAIN d THEN FmtS(d[k]) ELSE NoneText

-----------------------------------------------------------------------------
(* Frame codec: Electrolux._send *)

\* the checksum seed
Seed == 49325
\* the initial size of the packet, bytearray(0xD)
HeaderInit == 13
\* offset of the payload in the decrypted response
PayloadOff == 14

Magic == <<165, 165, 90, 90>>

\* sum(buf[0x08:], 0xC0AD) & 0xFFFF
d_checksum(buf) == SumSeq(SliceFrom(buf, 8), Seed) % 65536

\* the packet with the length written into the single byte at offset 10, which
\* leaves the header at its initial 13 bytes
PacketOneByteLength(command, data) ==
    LET p0 == bytearray(HeaderInit)
        p1 == SliceAssign(p0, 0, 2, to_bytes2(command))
        p2 == SliceAssign(p1, 2, 6, Magic)
        p3 == ItemAssign(p2, 8, IF Len(data) <= 2 THEN 1 ELSE 2)
        p4 == ItemAssign(p3, 9, 11)
        p5 == ItemAssign(p4, 10, Len(data) % 256)
        p6 == p5 \o data
    IN  SliceAssign(p6, 6, 8, to_bytes2(d_checksum(p6)))

\* lines 39-50: the packet built from a command code and its payload
packet(command, data) ==
    LET p0 == bytearray(HeaderInit)
        p1 == SliceAssign(p0, 0, 2, to_bytes2(command))
        p2 == SliceAssign(p1, 2, 6, Magic)
        p3 == ItemAssign(p2, 8, IF Len(data) <= 2 THEN 1 ELSE 2)
        p4 == ItemAssign(p3, 9, 11)
        p5 == SliceAssign(p4, 10, 11, to_bytes2(Len(data)))
        p6 == p5 \o data
    IN  SliceAssign(p6, 6, 8, to_bytes2(d_checksum(p6)))

\* Decode without the comparison of the two checksums
DecodeUnchecked(dcry) ==
    IF Len(Slice(dcry, 10, 12)) < 2
    THEN [outcome |-> "struct.error", payload |-> <<>>]
    ELSE LET r_length == unpack_h(Slice(dcry, 10, 12))
         IN  [outcome |-> "ok",
              payload |-> Slice(dcry, PayloadOff, PayloadOff + r_length)]

\* lines 56-66: validate the decrypted buffer and slice the payload out of it
Decode(dcry) ==
    IF Len(Slice(dcry, 6, 8)) < 2
    THEN [outcome |-> "struct.error", payload |-> <<>>]
    ELSE LET r_checksum == d_checksum(dcry)
             r_response == unpack_h(Slice(dcry, 6, 8))
         IN  IF r_checksum # r_response
             THEN [outcome |-> "DataValidationError", payload |-> <<>>]
             ELSE IF Len(Slice(dcry, 10, 12)) < 2
             THEN [outcome |-> "struct.error", payload |-> <<>>]
             ELSE LET r_length == unpack_h(Slice(dcry, 10, 12))
                  IN  [outcome |-> "ok",
                       payload |-> Slice(dcry, PayloadOff, PayloadOff + r_length)]

\* _send with a retry of the send after a timeout
SendRetrying(command, data, net) ==
    LET pkt == packet(command, data)
        dec == Decode(net.dcry)
    IN  IF net.timeout
        THEN [frame |-> pkt, data |-> data,
              events |-> <<"send_packet", "send_packet">>,
              outcome |-> "NetworkTimeoutError", payload |-> <<>>]
        ELSE IF unpack_h(net.err) # 0
        THEN [frame |-> pkt, data |-> data,
              events |-> <<"send_packet", "check_error">>,
              outcome |-> "DeviceError", payload |-> <<>>]
        ELSE [frame |-> pkt, data |-> data,
              events |-> <<"send_packet", "check_error", "decrypt", "checksum">>,
              outcome |-> dec.outcome, payload |-> dec.payload]

\* _send with the error code checked after the decryption and the checksum
SendCheckingLate(command, data, net) ==
    LET pkt == packet(command, data)
        dec == Decode(net.dcry)
    IN  IF net.timeout
        THEN [frame |-> pkt, data |-> data, events |-> <<"send_packet">>,
              outcome |-> "NetworkTimeoutError", payload |-> <<>>]
        ELSE IF dec.outcome # "ok"
        THEN [frame |-> pkt, data |-> data,
              events |-> <<"send_packet", "decrypt", "checksum">>,
              outcome |-> dec.outcome, payload |-> <<>>]
        ELSE IF unpack_h(net.err) # 0
        THEN [frame |-> pkt, data |-> data,
              events |-> <<"send_packet", "decrypt", "checksum", "check_error">>,
              outcome |-> "DeviceError", payload |-> <<>>]
        ELSE [frame |-> pkt, data |-> data,
              events |-> <<"send_packet", "decrypt", "checksum", "check_error">>,
              outcome |-> "ok", payload |-> dec.payload]

\* Electrolux._send(command, data), with the transport's behaviour in this call
\* as net: send_packet times out, or returns a response whose bytes 0x22..0x24
\* are net.err and whose bytes from 0x38 on decrypt to net.dcry.
\* events lists the calls made, in order.
_send(command, data, net) ==
    LET pkt == packet(command, data)
        dec == Decode(net.dcry)
    IN  IF net.timeout
        THEN [frame |-> pkt, data |-> data, events |-> <<"send_packet">>,
              outcome |-> "NetworkTimeoutError", payload |-> <<>>]
        ELSE IF unpack_h(net.err) # 0
        THEN [frame |-> pkt, data |-> data,
              events |-> <<"send_packet", "check_error">>,
              outcome |-> "DeviceError", payload |-> <<>>]
        ELSE [frame |-> pkt, data |-> data,
              events |-> <<"send_packet", "check_error", "decrypt", "checksum">>,
              outcome |-> dec.outcome, payload |-> dec.payload]

\* str(resp, "ascii") applied to what _send returned
str_ascii(r) ==
    IF r.outcome = "ok" /\ \E i \in 1..Len(r.payload) : r.payload[i] > 127
    THEN [r EXCEPT !.outcome = "UnicodeDecodeError"]
    ELSE r

-----------------------------------------------------------------------------
(* Command facade: the methods of Electrolux *)

\* the value tables of the methods
power_states == [on |-> 1, off |-> 0]
modes == [auto |-> 4, cool |-> 0, heat |-> 1, dry |-> 2, fan |-> 3, heat_8 |-> 6]
fan_levels == [auto |-> 0, low |-> 1, mid |-> 2, high |-> 3, turbo |-> 4, quiet |-> 5]
swing_states == [on |-> 1, off |-> 0]
led_states == [on |-> 1, off |-> 0]
sleep_states == [on |-> 1, off |-> 0]
clean_states == [on |-> 1, off |-> 0]

\* the limits of temp()
max_temp == 30
min_temp == 16
\* the limits of timer()
max_hours == 23
max_minutes == 59

\* the temperature limits of an earlier revision
TempDataWide(t) ==
    <<123, 34, 116, 101, 109, 112, 34, 58>> \o FmtS(Max(0, Min(t, 40))) \o <<125>>

\* '{"temp":%s}' % max(min_temp, min(temp, max_temp))
temp_data(t) ==
    <<123, 34, 116, 101, 109, 112, 34, 58>>
        \o FmtS(Max(min_temp, Min(t, max_temp))) \o <<125>>

\* the timer text without the zero padding
TimerDataUnpadded(on_timer, hours, minutes) ==
    LET h == Max(0, Min(hours, max_hours))
        m == Max(0, Min(minutes, max_minutes))
    IN  <<123, 34, 116, 105, 109, 101, 114, 34, 58, 34>>
            \o FmtS(h) \o FmtS(m) \o <<124, 48>>
            \o FmtS(IF on_timer THEN 1 ELSE 0) \o <<34, 125>>

\* '{"timer":"%02d%02d|0%s"}' % (hours, minutes, 1 if on_timer else 0)
timer_data(on_timer, hours, minutes) ==
    LET h == Max(0, Min(hours, max_hours))
        m == Max(0, Min(minutes, max_minutes))
    IN  <<123, 34, 116, 105, 109, 101, 114, 34, 58, 34>>
            \o Fmt02d(h) \o Fmt02d(m) \o <<124, 48>>
            \o FmtS(IF on_timer THEN 1 ELSE 0) \o <<34, 125>>

\* '{"ac_pwr":%s}' % power_states.get(power), and the like
power_data(v) == <<123, 34, 97, 99, 95, 112, 119, 114, 34, 58>>
                     \o FmtGet(power_states, v) \o <<125>>
mode_data(v) == <<123, 34, 97, 99, 95, 109, 111, 100, 101, 34, 58>>
                    \o FmtGet(modes, v) \o <<125>>
fan_data(v) == <<123, 34, 97, 99, 95, 109, 97, 114, 107, 34, 58>>
                   \o FmtGet(fan_levels, v) \o <<125>>
swing_data(v) == <<123, 34, 97, 99, 95, 118, 100, 105, 114, 34, 58>>
                     \o FmtGet(swing_states, v) \o <<125>>
led_data(v) == <<123, 34, 115, 99, 114, 100, 105, 115, 112, 34, 58>>
                   \o FmtGet(led_states, v) \o <<125>>
sleep_data(v) == <<123, 34, 97, 99, 95, 115, 108, 112, 34, 58>>
                     \o FmtGet(sleep_states, v) \o <<125>>
selfclean_data(v) == <<123, 34, 109, 108, 100, 112, 114, 102, 34, 58>>
                         \o FmtGet(clean_states, v) \o <<125>>

\* the methods: what each returns or raises, given the transport's behaviour
status(net) == str_ascii(_send(14, <<123, 125>>, net))
temp(t, net) == str_ascii(_send(23, temp_data(t), net))
power(v, net) == str_ascii(_send(24, power_data(v), net))
mode(v, net) == str_ascii(_send(25, mode_data(v), net))
fan(v, net) == str_ascii(_send(25, fan_data(v), net))
swing(v, net) == str_ascii(_send(25, swing_data(v), net))
led(v, net) == str_ascii(_send(25, led_data(v), net))
sleep(v, net) == str_ascii(_send(24, sleep_data(v), net))
selfclean(v, net) == str_ascii(_send(24, selfclean_data(v), net))
timer(on_timer, hours, minutes, net) ==
    str_ascii(_send(31, timer_data(on_timer, hours, minutes), net))
clear_timer(on_timer, net) == timer(on_timer, 0, 0, net)

-----------------------------------------------------------------------------
(* The transport: what send_packet and decrypt may hand to _send *)

LongBody == <<123, 34, 115, 34, 58, 34>> \o [i \in 1..LongLen |-> 122] \o <<34, 125>>
Bodies == {<<123, 125>>, LongBody}

\* the length fields a response may carry for a body: the true length, zero,
\* more than the body holds, and two values with the sign bit set (-1, -16)
LenFields(body) == {Len(body), 0, Len(body) + 4, 65535, 65520}

\* a decrypted response: the header of the device, the length field, the body,
\* and the checksum of the bytes from offset 8 on, off by ckDelta
Inner(ckDelta, lenField, body) ==
    LET b == <<0, 0>> \o Magic \o <<0, 0>>
                 \o <<(IF Len(body) <= 2 THEN 1 ELSE 2), 11>>
                 \o to_bytes2(lenField) \o <<0, 0>> \o body
    IN  SliceAssign(b, 6, 8, to_bytes2((d_checksum(b) + ckDelta) % 65536))

Inners ==
    {<<>>} \cup
    UNION {{Inner(ck, lf, body) : ck \in {0, 1}, lf \in LenFields(body)} :
              body \in Bodies}

\* the error codes at offset 0x22: success, and a device error (-7)
ErrCodes == {<<0, 0>>, <<249, 255>>}

NoNet == [timeout |-> FALSE, err |-> <<0, 0>>, dcry |-> <<>>]
Nets ==
    {[timeout |-> TRUE, err |-> <<0, 0>>, dcry |-> <<>>]} \cup
    {[timeout |-> FALSE, err |-> e, dcry |-> d] : e \in ErrCodes, d \in Inners}

-----------------------------------------------------------------------------
(* The program: main() constructs the controller, fire calls one method *)

VARIABLES
    phase,      \* "start", "failed" (no controller), "ready", "done"
    authed,     \* auth() has succeeded on the controller
    call,       \* the method called and its arguments
    net,        \* what the transport did in the call
    data,       \* the payload the method handed to _send
    frame,      \* the packet handed to send_packet
    events,     \* the transport calls of the method, in order
    outcome,    \* "ok" or the exception raised
    payload     \* the payload _send returned

vars == <<phase, authed, call, net, data, frame, events, outcome, payload>>

NoCall == [name |-> "", a |-> "", on |-> FALSE, x |-> 0, y |-> 0]

\* the symbolic values given on the command line: those of the tables and
\* one that is in none
Symbols(table) == DOMAIN table \cup {"invalid"}
TempIn == (min_temp - TempSlack)..(max_temp + TempSlack)
HoursIn == (0 - TimerSlack)..(max_hours + TimerSlack)
MinutesIn == (0 - TimerSlack)..(max_minutes + TimerSlack)

Init ==
    /\ phase = "start"
    /\ authed = FALSE
    /\ call = NoCall
    /\ net = NoNet
    /\ data = <<>>
    /\ frame = <<>>
    /\ events = <<>>
    /\ outcome = ""
    /\ payload = <<>>

\* the controller exists although auth() raised
ConstructSwallowing(helloOk, authOk) ==
    [phase |-> IF helloOk THEN "ready" ELSE "failed", authed |-> helloOk /\ authOk]

\* hello() and Electrolux.__init__: the controller exists only when hello()
\* found the device and auth() returned
construct(helloOk, authOk) ==
    [phase |-> IF helloOk /\ authOk THEN "ready" ELSE "failed",
     authed |-> helloOk /\ authOk]

Construct ==
    /\ phase = "start"
    /\ \E helloOk \in BOOLEAN, authOk \in BOOLEAN :
          /\ phase' = construct(helloOk, authOk).phase
          /\ authed' = construct(helloOk, authOk).authed
    /\ UNCHANGED <<call, net, data, frame, events, outcome, payload>>

\* one method call on the constructed controller
Called(c, n, r) ==
    /\ phase' = "done"
    /\ call' = c
    /\ net' = n
    /\ data' = r.data
    /\ frame' = r.frame
    /\ events' = r.events
    /\ outcome' = r.outcome
    /\ payload' = r.payload
    /\ UNCHANGED authed

Status ==
    /\ phase = "ready"
    /\ \E n \in Nets : Called([NoCall EXCEPT !.name = "status"], n, status(n))

Temp ==
    /\ phase = "ready"
    /\ \E n \in Nets, t \in TempIn :
          Called([NoCall EXCEPT !.name = "temp", !.x = t], n, temp(t, n))

Power ==
    /\ phase = "ready"
    /\ \E n \in Nets, v \in Symbols(power_states) :
          Called([NoCall EXCEPT !.name = "power", !.a = v], n, power(v, n))

Mode ==
    /\ phase = "ready"
    /\ \E n \in Nets, v \in Symbols(modes) :
          Called([NoCall EXCEPT !.name = "mode", !.a = v], n, mode(v, n))

Fan ==
    /\ phase = "ready"
    /\ \E n \in Nets, v \in Symbols(fan_levels) :
          Called([NoCall EXCEPT !.name = "fan", !.a = v], n, fan(v, n))

Swing ==
    /\ phase = "ready"
    /\ \E n \in Nets, v \in Symbols(swing_states) :
          Called([NoCall EXCEPT !.name = "swing", !.a = v], n, swing(v, n))

Led ==
    /\ phase = "ready"
    /\ \E n \in Nets, v \in Symbols(led_states) :
          Called([NoCall EXCEPT !.name = "led", !.a = v], n, led(v, n))

Sleep ==
    /\ phase = "ready"
    /\ \E n \in Nets, v \in Symbols(sleep_states) :
          Called([NoCall EXCEPT !.name = "sleep", !.a = v], n, sleep(v, n))

Selfclean ==
    /\ phase = "ready"
    /\ \E n \in Nets, v \in Symbols(clean_states) :
          Called([NoCall EXCEPT !.name = "selfclean", !.a = v], n, selfclean(v, n))

Timer ==
    /\ phase = "ready"
    /\ \E n \in Nets, on \in BOOLEAN, h \in HoursIn, m \in MinutesIn :
          Called([NoCall EXCEPT !.name = "timer", !.on = on, !.x = h, !.y = m],
                 n, timer(on, h, m, n))

ClearTimer ==
    /\ phase = "ready"
    /\ \E n \in Nets, on \in BOOLEAN :
          Called([NoCall EXCEPT !.name = "clear_timer", !.on = on],
                 n, clear_timer(on, n))

Next ==
    \/ Construct
    \/ Status
    \/ Temp
    \/ Power
    \/ Mode
    \/ Fan
    \/ Swing
    \/ Led
    \/ Sleep
    \/ Selfclean
    \/ Timer
    \/ ClearTimer

Spec == Init /\ [][Next]_vars

-----------------------------------------------------------------------------
(* The claims *)

\* what the specification's tables say of each operation
SymbolicOps == {"power", "mode", "fan", "swing", "led", "sleep", "selfclean"}
OnOff == {"on", "off"}
ValueDomain(name) ==
    CASE name = "mode" -> {"auto", "cool", "heat", "dry", "fan", "heat_8"}
      [] name = "fan" -> {"auto", "low", "mid", "high", "turbo", "quiet"}
      [] OTHER -> OnOff
CommandCode(name) ==
    CASE name = "status" -> 14
      [] name = "temp" -> 23
      [] name \in {"power", "sleep", "selfclean"} -> 24
      [] name \in {"mode", "fan", "swing", "led"} -> 25
      [] OTHER -> 31

Count(s, e) == Cardinality({i \in 1..Len(s) : s[i] = e})
TwoDigits(n) == <<48 + (n \div 10), 48 + (n % 10)>>
LE16(n) == <<n % 256, n \div 256>>
\* the checksum a buffer stores at offsets 6-8, and the one its bytes from
\* offset 8 on add up to
StoredChecksum(d) == d[7] + 256 * d[8]
ExpectedChecksum(d) == (49325 + SumRange(d, 9, Len(d))) % 65536
\* the length field of a buffer at offsets 10-12, as a signed 16-bit value
SignedLength(d) ==
    LET u == d[11] + 256 * d[12] IN IF u >= 32768 THEN u - 65536 ELSE u

\* C1: a facade operation called with a symbolic value outside its value
\* domain fails with InvalidArgument and the transport's send is not invoked.
C1_InvalidValueRejected ==
    (phase = "done" /\ call.name \in SymbolicOps
        /\ call.a \notin ValueDomain(call.name))
    => (outcome = "InvalidArgument" /\ Count(events, "send_packet") = 0)

\* C2: the frame a facade operation sent, read as a decrypted response,
\* passes the checksum validation of Decode.
C2_FramePassesDecodeChecksum ==
    phase = "done" => Decode(frame).outcome # "DataValidationError"

\* C3: a frame is sent and decrypt is called only on a controller whose
\* auth() succeeded; when construction fails there is no controller and no
\* operation runs.
C3_SendOnlyAfterAuth ==
    /\ (events # <<>> \/ frame # <<>> \/ phase \in {"ready", "done"}) => authed
    /\ phase = "failed" => (events = <<>> /\ frame = <<>> /\ call = NoCall)

C3_Witness ==
    phase = "done" /\ authed /\ Count(events, "send_packet") = 1
        /\ Count(events, "decrypt") = 1

\* C4: a response with a nonzero error code at offset 0x22 makes the operation
\* fail with the device error before decrypt and before the checksum
\* validation, and no payload is returned.
C4_ErrorCodeBeforeDecrypt ==
    (phase = "done" /\ ~net.timeout /\ net.err # <<0, 0>>)
    => /\ outcome = "DeviceError"
       /\ payload = <<>>
       /\ Count(events, "decrypt") = 0
       /\ Count(events, "checksum") = 0

C4_Witness ==
    /\ phase = "done" /\ ~net.timeout /\ net.err # <<0, 0>>
    /\ outcome = "DeviceError"
    /\ Len(net.dcry) >= 14
    /\ StoredChecksum(net.dcry) = ExpectedChecksum(net.dcry)

\* C5: a decrypted buffer whose stored checksum differs from the checksum of
\* its bytes from offset 8 on makes the operation raise the checksum
\* validation error, with no payload returned.
C5_ChecksumMismatchRaises ==
    (phase = "done" /\ Count(events, "decrypt") = 1 /\ Len(net.dcry) >= 8
        /\ StoredChecksum(net.dcry) # ExpectedChecksum(net.dcry))
    => (outcome = "DataValidationError" /\ payload = <<>>)

C5_Witness ==
    /\ phase = "done" /\ Count(events, "decrypt") = 1 /\ Len(net.dcry) >= 8
    /\ StoredChecksum(net.dcry) # ExpectedChecksum(net.dcry)
    /\ StoredChecksum(net.dcry) < 32768
    /\ outcome = "DataValidationError"

\* C6: every facade call makes exactly one send and at most one decrypt, the
\* send first, whatever the outcome.
C6_OneRoundTrip ==
    phase = "done"
    => /\ Count(events, "send_packet") = 1
       /\ Count(events, "decrypt") <= 1
       /\ events[1] = "send_packet"

C6_Witness ==
    /\ phase = "done" /\ call.name = "clear_timer"
    /\ outcome = "NetworkTimeoutError"
    /\ events = <<"send_packet">>

\* C7: temp(t) sends command 0x17 with the payload {"temp":c}, c the value t
\* clamped to 16..30; below 16 and above 30 the frame is that of temp(16) and
\* temp(30).
C7_TempClamped ==
    (phase = "done" /\ call.name = "temp")
    => LET t == call.x
           c == IF t < 16 THEN 16 ELSE IF t > 30 THEN 30 ELSE t
       IN  /\ Slice(frame, 0, 2) = <<23, 0>>
           /\ data = <<123, 34, 116, 101, 109, 112, 34, 58>>
                         \o TwoDigits(c) \o <<125>>
           /\ SliceFrom(frame, Len(frame) - Len(data)) = data
           /\ t <= 16 => frame = temp(16, net).frame
           /\ t >= 30 => frame = temp(30, net).frame

C7_Witness ==
    phase = "done" /\ call.name = "temp" /\ call.x > 30 /\ outcome = "ok"

\* C8: timer(flag, hours, minutes) sends command 0x1F with the payload
\* {"timer":"HHMM|0f"}, hours clamped to 0..23 and minutes to 0..59, two digits
\* each; clear_timer(flag) sends the frame of timer(flag, 0, 0).
C8_TimerPayload ==
    /\ (phase = "done" /\ call.name = "timer")
       => LET h == IF call.x < 0 THEN 0 ELSE IF call.x > 23 THEN 23 ELSE call.x
              m == IF call.y < 0 THEN 0 ELSE IF call.y > 59 THEN 59 ELSE call.y
              f == IF call.on THEN 49 ELSE 48
          IN  /\ Slice(frame, 0, 2) = <<31, 0>>
              /\ data = <<123, 34, 116, 105, 109, 101, 114, 34, 58, 34>>
                            \o TwoDigits(h) \o TwoDigits(m)
                            \o <<124, 48, f, 34, 125>>
              /\ SliceFrom(frame, Len(frame) - Len(data)) = data
    /\ (phase = "done" /\ call.name = "clear_timer")
       => frame = timer(call.on, 0, 0, net).frame

C8_Witness ==
    /\ phase = "done" /\ call.name = "timer"
    /\ call.on /\ call.x > 23 /\ call.y < 0

\* the fields of the header that both readings of C9 share
HeaderFields ==
    /\ Slice(frame, 0, 2) = LE16(CommandCode(call.name))
    /\ Slice(frame, 2, 6) = <<165, 165, 90, 90>>
    /\ Slice(frame, 6, 8) = LE16(ExpectedChecksum(frame))
    /\ frame[9] = (IF Len(data) <= 2 THEN 1 ELSE 2)
    /\ frame[10] = 11
    /\ frame[11] = Len(data) % 256

\* C9 as stated: the frame is a 13-byte header followed by the payload, of
\* total length 13 + len(payload).
C9_Header13 ==
    phase = "done"
    => /\ Len(frame) = 13 + Len(data)
       /\ SliceFrom(frame, 13) = data
       /\ HeaderFields

\* C9 as amended: the frame is a 14-byte header followed by the payload, of
\* total length 14 + len(payload); the payload length is the 2-byte
\* little-endian value at offsets 10-12 and offsets 12-14 are zero.
C9_Header14 ==
    phase = "done"
    => /\ Len(frame) = 14 + Len(data)
       /\ SliceFrom(frame, 14) = data
       /\ HeaderFields
       /\ Slice(frame, 10, 12) = LE16(Len(data))
       /\ Slice(frame, 12, 14) = <<0, 0>>

C9_Witness ==
    phase = "done" /\ call.name = "status" /\ Len(data) = 2 /\ frame[9] = 1

\* C10: when Decode returns normally the payload is the bytes of the buffer
\* at offsets 14 <= i < 14 + length, length the signed 16-bit length field:
\* empty when length <= 0 and never longer than length.
C10_PayloadSlice ==
    (phase = "done" /\ Count(events, "decrypt") = 1 /\ outcome = "ok")
    => LET length == SignedLength(net.dcry)
       IN  /\ payload = [i \in 1..(Min(14 + length, Len(net.dcry)) - 14)
                            |-> net.dcry[14 + i]]
           /\ length <= 0 => payload = <<>>
           /\ Len(payload) <= Max(length, 0)

====
